---- MODULE Spec2Model ----
(***************************************************************************)
(* Model of aws_auditor.py: the interactive menu loop of main() and the    *)
(* EC2 / AMI audit of AWSAccountAuditor.audit_ec2_instances().             *)
(*                                                                         *)
(* Python values are modelled as follows.                                  *)
(*   - a dict is a function whose DOMAIN is the set of keys present;       *)
(*   - a list is a sequence;                                               *)
(*   - an atomic string is a TLA+ string, and None is the reserved string  *)
(*     None below;                                                         *)
(*   - a string BUILT by the program (an f-string, a ", ".join) is a       *)
(*     sequence of string pieces, so that formatting is concatenation and  *)
(*     not the identity;                                                   *)
(*   - a line typed at the prompt is a sequence of characters.             *)
(***************************************************************************)
EXTENDS Naturals, Sequences, FiniteSets, TLC

(* ------------------------------ bounds --------------------------------- *)

\* Largest number of instances describe_instances returns.
MaxInstances == 2

\* Largest number of images describe_images returns.
MaxImages == 2

(* --------------------------- python helpers ---------------------------- *)

None == "<None>"

EmptyDict == <<>>

\* d.get(k, default)
Get(d, k, default) == IF k \in DOMAIN d THEN d[k] ELSE default

\* Python truthiness of a string-or-None value.
Truthy(v) == v # None /\ v # ""

\* str(v) as an f-string renders it.
Str(v) == IF v = None THEN "None" ELSE v

\* sep.join(parts) for parts that are built strings (sequences of pieces).
RECURSIVE JoinText(_)
JoinText(parts) ==
    IF parts = <<>> THEN <<>>
    ELSE IF Len(parts) = 1 THEN parts[1]
    ELSE parts[1] \o <<", ">> \o JoinText(Tail(parts))

\* ", ".join(items) for a list of atomic strings.
Join(items) == JoinText([k \in 1..Len(items) |-> <<items[k]>>])

\* str.join raises TypeError when an item is not a string.
JoinRaises(items) == \E k \in 1..Len(items) : items[k] = None

(* --------------------------- the environment --------------------------- *)

\* Instances an account may hold, as describe_instances reports them.
InstWeb ==
    [InstanceId |-> "i-1", ImageId |-> "ami-1", InstanceType |-> "t2.micro",
     Tags |-> <<[Key |-> "Name", Value |-> "web"]>>,
     State |-> [Name |-> "running"],
     PublicIpAddress |-> "3.3.3.3", PrivateIpAddress |-> "10.0.0.1",
     SecurityGroups |-> <<[GroupName |-> "default"], [GroupName |-> "ssh"]>>,
     IamInstanceProfile |-> [Arn |-> "arn:profile/web"]]

InstUntagged ==
    [InstanceId |-> "i-2", ImageId |-> "ami-1", Tags |-> <<>>,
     State |-> [Code |-> "80"], IamInstanceProfile |-> [Id |-> "AIPA"]]

InstNoImage ==
    [InstanceId |-> "i-3", ImageId |-> "",
     Tags |-> <<[Key |-> "env", Value |-> "prod"],
                [Key |-> "Name", Value |-> "db"],
                [Key |-> "Name", Value |-> "old"]>>,
     SecurityGroups |-> <<>>]

InstAnonymous ==
    [ImageId |-> "ami-2", Tags |-> <<[Value |-> "orphan"], [Key |-> "Name"]>>]

InstBare ==
    [InstanceId |-> "i-5", InstanceType |-> "t3.nano"]

InstUnnamedGroup ==
    [InstanceId |-> "i-6", ImageId |-> "ami-1",
     Tags |-> <<[Key |-> "Name", Value |-> "gw"]>>,
     SecurityGroups |-> <<[GroupId |-> "sg-1"]>>]

InstancePool ==
    {InstWeb, InstUntagged, InstNoImage, InstAnonymous, InstBare, InstUnnamedGroup}

\* All sequences over S of length at most n.
SeqsUpTo(S, n) == UNION {[1..k -> S] : k \in 0..n}

\* The reservations of a describe_instances response: the instances in
\* launch groups of `per`, the last group possibly shorter.
RECURSIVE Chunk(_, _)
Chunk(flat, per) ==
    IF flat = <<>> THEN <<>>
    ELSE IF Len(flat) <= per THEN <<[Instances |-> flat]>>
    ELSE <<[Instances |-> SubSeq(flat, 1, per)]>>
         \o Chunk(SubSeq(flat, per + 1, Len(flat)), per)

\* What ec2.describe_instances() may return.
DescribeInstancesResponses ==
    {[Reservations |-> Chunk(flat, 2)] : flat \in SeqsUpTo(InstancePool, MaxInstances)}
    \cup {[Reservations |-> Chunk(flat, 1)] : flat \in [1..2 -> InstancePool]}
    \cup {[Reservations |-> <<[OwnerId |-> "1"]>> \o Chunk(<<inst>>, 1)] :
            inst \in InstancePool}
    \cup {[ResponseMetadata |-> "ok"]}

ImgBase == [ImageId |-> "ami-1", Name |-> "base"]

ImgBare == [State |-> "available"]

ImagePool == {ImgBase, ImgBare}

\* What ec2.describe_images(Owners=['self']) may return.
DescribeImagesResponses ==
    {[Images |-> imgs] : imgs \in SeqsUpTo(ImagePool, MaxImages)}
    \cup {[ResponseMetadata |-> "ok"]}

\* What cloudwatch.list_metrics may return for the InstanceId dimension
\* `target`: the metrics the account holds for it, or a metric that carries
\* no MetricName.
AccountMetrics(target) ==
    IF target = "i-1"
    THEN [Metrics |-> <<[MetricName |-> "CPUUtilization"], [MetricName |-> "NetworkIn"]>>]
    ELSE IF target = "i-2"
    THEN [Metrics |-> <<>>]
    ELSE IF target = "N/A"
    THEN [Metrics |-> <<[MetricName |-> "StatusCheckFailed"]>>]
    ELSE [ResponseMetadata |-> "ok"]

UnnamedMetric == [Metrics |-> <<[Namespace |-> "AWS/EC2"]>>]

ListMetricsResponses(target) == {AccountMetrics(target), UnnamedMetric}

\* Lines a user may type at the prompt (input() drops the newline).
InputLines ==
    {<<"1">>, <<"2">>, <<" ", "1", "\t">>, <<" ", "2", " ">>,
     <<" ">>, <<"3">>, <<"2", " ", "2">>}

(* ------------------------------ pure code ------------------------------ *)

Whitespace == {" ", "\t", "\n"}

\* str.lstrip() in the place of str.strip(): trailing whitespace is kept.
RECURSIVE Strip_leading(_)
Strip_leading(s) ==
    IF s = <<>> THEN s
    ELSE IF Head(s) \in Whitespace THEN Strip_leading(Tail(s))
    ELSE s

\* str.strip()
RECURSIVE Strip(_)
Strip(s) ==
    IF s = <<>> THEN s
    ELSE IF Head(s) \in Whitespace THEN Strip(Tail(s))
    ELSE IF s[Len(s)] \in Whitespace THEN Strip(SubSeq(s, 1, Len(s) - 1))
    ELSE s

\* get_instance_name without the early return: the last Name tag wins.
RECURSIVE NameFrom_last(_, _)
NameFrom_last(tags, k) ==
    IF k > Len(tags) THEN "N/A"
    ELSE IF NameFrom_last(tags, k + 1) # "N/A" THEN NameFrom_last(tags, k + 1)
    ELSE IF Get(tags[k], "Key", None) = "Name" THEN Get(tags[k], "Value", None)
    ELSE "N/A"

\* get_instance_name: the for loop over the tags, from tag k on.
RECURSIVE NameFrom(_, _)
NameFrom(tags, k) ==
    IF k > Len(tags) THEN "N/A"
    ELSE IF Get(tags[k], "Key", None) = "Name" THEN Get(tags[k], "Value", None)
    ELSE NameFrom(tags, k + 1)

get_instance_name(instance) == NameFrom(Get(instance, "Tags", <<>>), 1)

\* [sg.get('GroupName') for sg in instance.get('SecurityGroups', [])]
security_groups(instance) ==
    LET sgs == Get(instance, "SecurityGroups", <<>>)
    IN  [k \in 1..Len(sgs) |-> Get(sgs[k], "GroupName", None)]

\* The instance_data dict literal.
InstanceData(instance) ==
    [InstanceID     |-> Get(instance, "InstanceId", "N/A"),
     Name           |-> get_instance_name(instance),
     Type           |-> Get(instance, "InstanceType", "N/A"),
     State          |-> Get(Get(instance, "State", EmptyDict), "Name", "N/A"),
     PublicIP       |-> Get(instance, "PublicIpAddress", "N/A"),
     PrivateIP      |-> Get(instance, "PrivateIpAddress", "N/A"),
     SecurityGroups |-> IF security_groups(instance) # <<>>
                        THEN Join(security_groups(instance)) ELSE <<"N/A">>,
     IAMRole        |-> Get(Get(instance, "IamInstanceProfile", EmptyDict), "Arn", "N/A")]

\* [metric.get('MetricName') for metric in metrics_response.get('Metrics', [])]
Alarms(metrics_response) ==
    LET ms == Get(metrics_response, "Metrics", <<>>)
    IN  [k \in 1..Len(ms) |-> Get(ms[k], "MetricName", None)]

\* ', '.join(alarms) if alarms else 'None'
MonitoringAlarms(alarms) == IF alarms # <<>> THEN Join(alarms) ELSE <<"None">>

\* f"{self.get_instance_name(instance)} ({instance.get('InstanceId', 'N/A')})"
InstanceStr(instance) ==
    <<Str(get_instance_name(instance)), " (", Str(Get(instance, "InstanceId", "N/A")), ")">>

\* The mapping kept from one call to the next (an attribute set once, or a
\* mutable default argument) in the place of a fresh dict.
NewMapping_kept(previous) == previous

\* instance_mapping = {}
NewMapping(previous) == <<>>

\* insert(0, instance_str) in the place of append(instance_str).
SetDefaultAppend_front(mapping, ami_id, instance_str) ==
    IF ami_id \in DOMAIN mapping
    THEN [mapping EXCEPT ![ami_id] = <<instance_str>> \o @]
    ELSE mapping @@ (ami_id :> <<instance_str>>)

\* instance_mapping.setdefault(ami_id, []).append(instance_str)
SetDefaultAppend(mapping, ami_id, instance_str) ==
    IF ami_id \in DOMAIN mapping
    THEN [mapping EXCEPT ![ami_id] = Append(@, instance_str)]
    ELSE mapping @@ (ami_id :> <<instance_str>>)

\* The mapping loop body without the `if ami_id:` test.
MapInstance_unfiltered(mapping, instance) ==
    SetDefaultAppend(mapping, Get(instance, "ImageId", None), InstanceStr(instance))

\* One pass of the mapping loop body.
MapInstance(mapping, instance) ==
    LET ami_id == Get(instance, "ImageId", None)
    IN  IF Truthy(ami_id)
        THEN SetDefaultAppend(mapping, ami_id, InstanceStr(instance))
        ELSE mapping

\* The mapping loop over raw_instances, from instance k on.
RECURSIVE BuildMapping(_, _, _)
BuildMapping(mapping, instances, k) ==
    IF k > Len(instances) THEN mapping
    ELSE BuildMapping(MapInstance(mapping, instances[k]), instances, k + 1)

\* instance_mapping.get(ami_id): the list, or None when the key is absent.
MappingGet(mapping, ami_id) ==
    IF ami_id \in DOMAIN mapping
    THEN [found |-> TRUE, list |-> mapping[ami_id]]
    ELSE [found |-> FALSE, list |-> <<>>]

\* ", ".join(associated_instances or []): no "None" for an unused image.
InstancesStr_blank(associated) == JoinText(associated.list)

\* ", ".join(associated_instances) if associated_instances else "None"
InstancesStr(associated) ==
    IF associated.found /\ associated.list # <<>>
    THEN JoinText(associated.list) ELSE <<"None">>

\* The row appended to ami_results for one image.
AmiRow(image, mapping) ==
    [AMIID     |-> Get(image, "ImageId", "N/A"),
     AMIName   |-> Get(image, "Name", "N/A"),
     Instances |-> InstancesStr(MappingGet(mapping, Get(image, "ImageId", "N/A")))]

(* -------------------------------- state -------------------------------- *)

VARIABLES
    ec2,              \* the account's instances: the describe_instances answer
    ami,              \* the account's images: the describe_images answer
    pc,               \* where control is
    line,             \* main: the line input() last returned
    choice,           \* main: that line, stripped
    console,          \* what was printed since the prompt was last shown
    log,              \* entries appended to the log file since then
    api_calls,        \* API calls attempted since then, in order
    exc,              \* the exception raised in the current audit, or None
    response,         \* audit_ec2_instances locals, as last bound
    raw_instances,
    instances_data,
    r,                \* position of the reservation loop
    i,                \* position of the instance loop
    instance_mapping,
    images_data,
    ami_results,
    j                 \* position of the image loop

account == <<ec2, ami>>

locals == <<response, raw_instances, instances_data, r, i,
            instance_mapping, images_data, ami_results, j>>

vars == <<ec2, ami, pc, line, choice, console, log, api_calls, exc,
          response, raw_instances, instances_data, r, i,
          instance_mapping, images_data, ami_results, j>>

(* ------------------------------- output -------------------------------- *)

Line(text) == [text |-> text, rows |-> <<>>]

Table(title, rows) == [text |-> title, rows |-> rows]

MenuText == Line("=== AWS EC2 Account Auditor === 1. Audit 2. Exit")

ThanksText == Line("Thank you for using AWS EC2 Account Auditor!")

InvalidText == Line("Invalid choice. Please select a valid option.")

ErrorText ==
    Line("Error: Unable to retrieve EC2 instance or AMI information. Please check your IAM permissions.")

Ec2Title == "EC2 Instances Audit Results:"

AmiTitle == "AMI Audit Results (AMI and Associated Instances):"

\* logging.error(f"Error auditing EC2 instances: {str(e)}")
ErrorEntry(e) == [level |-> "ERROR", message |-> <<"Error auditing EC2 instances: ", e>>]

Call(api, target, ok) == [api |-> api, target |-> target, ok |-> ok]

(* ------------------------------- actions ------------------------------- *)

Init ==
    /\ ec2 \in DescribeInstancesResponses
    /\ ami \in DescribeImagesResponses
    /\ pc = "menu"
    /\ line = <<>>
    /\ choice = <<>>
    /\ console = <<>>
    /\ log = <<>>
    /\ api_calls = <<>>
    /\ exc = None
    /\ response = EmptyDict
    /\ raw_instances = <<>>
    /\ instances_data = <<>>
    /\ r = 1
    /\ i = 1
    /\ instance_mapping = <<>>
    /\ images_data = <<>>
    /\ ami_results = <<>>
    /\ j = 1

\* main: one turn of the while loop up to the dispatch on the choice.
Prompt ==
    /\ pc = "menu"
    /\ \E typed \in InputLines :
         /\ line' = typed
         /\ choice' = Strip(typed)
         /\ IF choice' = <<"1">>
            THEN /\ pc' = "describe_instances"
                 /\ console' = <<MenuText>>
            ELSE IF choice' = <<"2">>
            THEN /\ pc' = "exited"
                 /\ console' = <<MenuText, ThanksText>>
            ELSE /\ pc' = "menu"
                 /\ console' = <<MenuText, InvalidText>>
    /\ log' = <<>>
    /\ api_calls' = <<>>
    /\ exc' = None
    /\ UNCHANGED <<account, locals>>

\* response = self.ec2_client.describe_instances(); raw_instances = []; instances_data = []
DescribeInstances ==
    /\ pc = "describe_instances"
    /\ \/ /\ api_calls' = Append(api_calls, Call("describe_instances", "", TRUE))
          /\ response' = ec2
          /\ raw_instances' = <<>>
          /\ instances_data' = <<>>
          /\ r' = 1
          /\ i' = 1
          /\ pc' = "for_instance"
          /\ UNCHANGED exc
       \/ /\ api_calls' = Append(api_calls, Call("describe_instances", "", FALSE))
          /\ exc' = "ClientError"
          /\ pc' = "except"
          /\ UNCHANGED <<response, raw_instances, instances_data, r, i>>
    /\ UNCHANGED <<account, line, choice, console, log,
                   instance_mapping, images_data, ami_results, j>>

Reservations == Get(response, "Reservations", <<>>)

InstancesOf(reservation) == Get(reservation, "Instances", <<>>)

\* The body of the inner for loop, for one instance.
ForInstance ==
    /\ pc = "for_instance"
    /\ r <= Len(Reservations)
    /\ i <= Len(InstancesOf(Reservations[r]))
    /\ LET instance == InstancesOf(Reservations[r])[i]
           target   == Get(instance, "InstanceId", "N/A")
       IN  /\ raw_instances' = Append(raw_instances, instance)
           /\ IF JoinRaises(security_groups(instance))
              THEN /\ exc' = "TypeError"
                   /\ pc' = "except"
                   /\ UNCHANGED <<api_calls, instances_data, i>>
              ELSE \/ /\ api_calls' = Append(api_calls, Call("list_metrics", target, FALSE))
                      /\ exc' = "ClientError"
                      /\ pc' = "except"
                      /\ UNCHANGED <<instances_data, i>>
                   \/ \E metrics_response \in ListMetricsResponses(target) :
                        LET alarms == Alarms(metrics_response)
                        IN  /\ api_calls' = Append(api_calls, Call("list_metrics", target, TRUE))
                            /\ IF JoinRaises(alarms)
                               THEN /\ exc' = "TypeError"
                                    /\ pc' = "except"
                                    /\ UNCHANGED <<instances_data, i>>
                               ELSE /\ instances_data' =
                                        Append(instances_data,
                                               InstanceData(instance) @@
                                               [MonitoringAlarms |-> MonitoringAlarms(alarms)])
                                    /\ i' = i + 1
                                    /\ UNCHANGED <<exc, pc>>
    /\ UNCHANGED <<account, line, choice, console, log, response, r,
                   instance_mapping, images_data, ami_results, j>>

\* The inner loop is exhausted: the outer loop takes the next reservation.
NextReservation ==
    /\ pc = "for_instance"
    /\ r <= Len(Reservations)
    /\ i > Len(InstancesOf(Reservations[r]))
    /\ r' = r + 1
    /\ i' = 1
    /\ UNCHANGED <<account, pc, line, choice, console, log, api_calls, exc, response,
                   raw_instances, instances_data,
                   instance_mapping, images_data, ami_results, j>>

\* print(tabulate.tabulate(instances_data, ...)) once both loops are done.
PrintEc2Table ==
    /\ pc = "for_instance"
    /\ r > Len(Reservations)
    /\ console' = Append(console, Table(Ec2Title, instances_data))
    /\ pc' = "build_mapping"
    /\ UNCHANGED <<account, line, choice, log, api_calls, exc, locals>>

\* instance_mapping = {} and the loop over raw_instances.
BuildInstanceMapping ==
    /\ pc = "build_mapping"
    /\ instance_mapping' = BuildMapping(NewMapping(instance_mapping), raw_instances, 1)
    /\ pc' = "describe_images"
    /\ UNCHANGED <<account, line, choice, console, log, api_calls, exc, response,
                   raw_instances, instances_data, r, i, images_data, ami_results, j>>

\* describe_images called a second time when the first call fails.
DescribeImages_retry ==
    /\ pc = "describe_images"
    /\ \/ /\ api_calls' = Append(api_calls, Call("describe_images", "self", TRUE))
          /\ images_data' = Get(ami, "Images", <<>>)
          /\ ami_results' = <<>>
          /\ j' = 1
          /\ pc' = "for_image"
          /\ UNCHANGED exc
       \/ /\ api_calls' = Append(api_calls, Call("describe_images", "self", FALSE))
          /\ IF \E k \in 1..Len(api_calls) : api_calls[k].api = "describe_images"
             THEN exc' = "ClientError" /\ pc' = "except"
             ELSE UNCHANGED <<exc, pc>>
          /\ UNCHANGED <<images_data, ami_results, j>>
    /\ UNCHANGED <<account, line, choice, console, log, response,
                   raw_instances, instances_data, r, i, instance_mapping>>

\* images_response = describe_images(Owners=['self']); images_data = ...; ami_results = []
DescribeImages ==
    /\ pc = "describe_images"
    /\ \/ /\ api_calls' = Append(api_calls, Call("describe_images", "self", TRUE))
          /\ images_data' = Get(ami, "Images", <<>>)
          /\ ami_results' = <<>>
          /\ j' = 1
          /\ pc' = "for_image"
          /\ UNCHANGED exc
       \/ /\ api_calls' = Append(api_calls, Call("describe_images", "self", FALSE))
          /\ exc' = "ClientError"
          /\ pc' = "except"
          /\ UNCHANGED <<images_data, ami_results, j>>
    /\ UNCHANGED <<account, line, choice, console, log, response,
                   raw_instances, instances_data, r, i, instance_mapping>>

\* The image loop body listing only the images that have instances.
ForImage_usedOnly ==
    /\ pc = "for_image"
    /\ j <= Len(images_data)
    /\ ami_results' =
          IF MappingGet(instance_mapping, Get(images_data[j], "ImageId", "N/A")).found
          THEN Append(ami_results, AmiRow(images_data[j], instance_mapping))
          ELSE ami_results
    /\ j' = j + 1
    /\ UNCHANGED <<account, pc, line, choice, console, log, api_calls, exc, response,
                   raw_instances, instances_data, r, i, instance_mapping, images_data>>

\* The body of the loop over images_data, for one image.
ForImage ==
    /\ pc = "for_image"
    /\ j <= Len(images_data)
    /\ ami_results' = Append(ami_results, AmiRow(images_data[j], instance_mapping))
    /\ j' = j + 1
    /\ UNCHANGED <<account, pc, line, choice, console, log, api_calls, exc, response,
                   raw_instances, instances_data, r, i, instance_mapping, images_data>>

\* print(tabulate.tabulate(ami_results, ...)); the method returns to the menu.
PrintAmiTable ==
    /\ pc = "for_image"
    /\ j > Len(images_data)
    /\ console' = Append(console, Table(AmiTitle, ami_results))
    /\ pc' = "menu"
    /\ UNCHANGED <<account, line, choice, log, api_calls, exc, locals>>

\* except ClientError in the place of except Exception: a TypeError leaves
\* audit_ec2_instances and main uncaught, and the process ends.
Except_clientErrorOnly ==
    /\ pc = "except"
    /\ IF exc = "ClientError"
       THEN /\ log' = Append(log, ErrorEntry(exc))
            /\ console' = Append(console, ErrorText)
            /\ pc' = "menu"
       ELSE /\ pc' = "exited"
            /\ UNCHANGED <<log, console>>
    /\ UNCHANGED <<account, line, choice, api_calls, exc, locals>>

\* except Exception as e: log the error, print the message, return to the menu.
Except ==
    /\ pc = "except"
    /\ log' = Append(log, ErrorEntry(exc))
    /\ console' = Append(console, ErrorText)
    /\ pc' = "menu"
    /\ UNCHANGED <<account, line, choice, api_calls, exc, locals>>

Next ==
    \/ Prompt
    \/ DescribeInstances
    \/ ForInstance
    \/ NextReservation
    \/ PrintEc2Table
    \/ BuildInstanceMapping
    \/ DescribeImages
    \/ ForImage
    \/ PrintAmiTable
    \/ Except

Spec == Init /\ [][Next]_vars

TypeOK ==
    /\ pc \in {"menu", "describe_instances", "for_instance", "build_mapping",
               "describe_images", "for_image", "except", "exited"}
    /\ exc \in {None, "ClientError", "TypeError"}

(* --------------------- vocabulary of the properties -------------------- *)

\* The instances of a describe_instances response, in reservation order and
\* then in instance order.
RECURSIVE Flatten(_)
Flatten(reservations) ==
    IF reservations = <<>> THEN <<>>
    ELSE (IF "Instances" \in DOMAIN Head(reservations)
          THEN Head(reservations).Instances ELSE <<>>)
         \o Flatten(Tail(reservations))

Answered == IF "Reservations" \in DOMAIN response THEN Flatten(response.Reservations) ELSE <<>>

Offered == IF "Images" \in DOMAIN ami THEN ami.Images ELSE <<>>

HasImageId(inst) == "ImageId" \in DOMAIN inst /\ inst.ImageId \notin {None, ""}

NameTags(inst) ==
    IF "Tags" \in DOMAIN inst
    THEN {k \in 1..Len(inst.Tags) : "Key" \in DOMAIN inst.Tags[k] /\ inst.Tags[k].Key = "Name"}
    ELSE {}

\* The display name the documentation promises.
ExpectedName(inst) ==
    IF NameTags(inst) = {} THEN "N/A"
    ELSE LET first == CHOOSE k \in NameTags(inst) : \A m \in NameTags(inst) : k <= m
         IN  IF "Value" \in DOMAIN inst.Tags[first] THEN inst.Tags[first].Value ELSE None

\* The descriptor "<name> (<InstanceId>)".
Descriptor(inst) ==
    <<IF ExpectedName(inst) = None THEN "None" ELSE ExpectedName(inst),
      " (",
      IF "InstanceId" \in DOMAIN inst THEN inst.InstanceId ELSE "N/A",
      ")">>

\* The instances launched from image X, in input order.
LaunchedFrom(instances, X) ==
    SelectSeq(instances, LAMBDA inst : HasImageId(inst) /\ inst.ImageId = X)

DescriptorsFor(instances, X) ==
    [k \in 1..Len(LaunchedFrom(instances, X)) |-> Descriptor(LaunchedFrom(instances, X)[k])]

\* text contains piece-sequence sub as a contiguous run.
Contains(text, sub) ==
    \E k \in 0..(Len(text) - Len(sub)) : SubSeq(text, k + 1, k + Len(sub)) = sub

LastPrinted == IF console = <<>> THEN "" ELSE console[Len(console)].text

\* The audit of this turn ran through both tables.
Succeeded == pc = "menu" /\ LastPrinted = AmiTitle

\* The association mapping of the current audit is complete.
MappingBuilt == pc \in {"describe_images", "for_image"} \/ Succeeded

(* -------------------------------- claims ------------------------------- *)

\* C1: once the mapping is built, its keys are exactly the non-empty image
\* identifiers of the instances received, and the list of image X is exactly
\* the descriptors "<name> (<InstanceId>)" of the instances whose ImageId is
\* X, one entry per instance, in input order (reservation order, then
\* instance order), unsorted and with duplicates kept.
C1_MappingExactInOrder ==
    MappingBuilt =>
        /\ DOMAIN instance_mapping =
              {Answered[k].ImageId : k \in {n \in 1..Len(Answered) : HasImageId(Answered[n])}}
        /\ \A X \in DOMAIN instance_mapping :
              instance_mapping[X] = DescriptorsFor(Answered, X)

\* Two instances of one image in two reservations: the list keeps the order
\* of the reservations, which is not the order of the names or of the ids.
C1_Witness ==
    /\ pc = "for_image"
    /\ Len(Get(response, "Reservations", <<>>)) = 2
    /\ "ami-1" \in DOMAIN instance_mapping
    /\ instance_mapping["ami-1"] = << <<"N/A", " (", "i-2", ")">>, <<"web", " (", "i-1", ")">> >>

\* C2: an instance whose ImageId is absent or empty contributes nothing: no
\* key of the mapping is empty, the lists hold one entry per instance that
\* has an ImageId and no more, the descriptor of the instance is in no list
\* and in the Instances field of no AMI row, and a TypeError in the audit is
\* raised by a join over group or metric names, never by the missing ImageId.
C2_NoImageIdNoEntry ==
    /\ MappingBuilt =>
          /\ \A X \in DOMAIN instance_mapping : X \notin {None, ""}
          /\ \A k \in 1..Len(Answered) :
                ~HasImageId(Answered[k]) =>
                   /\ \A X \in DOMAIN instance_mapping :
                         \A p \in 1..Len(instance_mapping[X]) :
                            instance_mapping[X][p] # Descriptor(Answered[k])
                   /\ \A q \in 1..Len(ami_results) :
                         (pc = "for_image" \/ Succeeded) =>
                            ~Contains(ami_results[q].Instances, Descriptor(Answered[k]))
    /\ (pc = "except" /\ exc = "TypeError") =>
          \/ JoinRaises(security_groups(raw_instances[Len(raw_instances)]))
          \/ /\ api_calls[Len(api_calls)].api = "list_metrics"
             /\ api_calls[Len(api_calls)].ok

\* An audit ran through both tables although instances with an empty and
\* with an absent ImageId were among the instances.
C2_Witness ==
    /\ Succeeded
    /\ Len(raw_instances) = 2
    /\ Get(raw_instances[1], "ImageId", None) = ""
    /\ "ImageId" \notin DOMAIN raw_instances[2]
    /\ Len(ami_results) = 2

\* C3: the Instances field of an AMI row is the literal "None" when no
\* instance received has the image's identifier as its ImageId, and otherwise
\* the descriptors of the matching instances joined by ", ".
C3_InstancesFieldNoneOrJoined ==
    (pc = "for_image" \/ Succeeded) =>
        \A q \in 1..Len(ami_results) :
            LET matching == DescriptorsFor(Answered, ami_results[q].AMIID)
            IN  ami_results[q].Instances =
                   IF matching = <<>> THEN <<"None">> ELSE JoinText(matching)

\* One image without instances next to one with two.
C3_Witness ==
    /\ Succeeded
    /\ Len(ami_results) = 2
    /\ ami_results[1].Instances = <<"None">>
    /\ ami_results[2].Instances = <<"web", " (", "i-1", ")", ", ", "N/A", " (", "i-2", ")">>

\* C4: while the image loop runs it has appended one row per image taken,
\* and when the audit succeeds the AMI report has one row per image returned,
\* in the order returned, row q carrying the ImageId, the Name and the
\* association field of image q.
C4_OneRowPerImageInOrder ==
    /\ pc = "for_image" => Len(ami_results) = j - 1
    /\ Succeeded => Len(ami_results) = Len(Offered)
    /\ (pc = "for_image" \/ Succeeded) =>
          \A q \in 1..Len(ami_results) :
             /\ ami_results[q].AMIID =
                   (IF "ImageId" \in DOMAIN Offered[q] THEN Offered[q].ImageId ELSE "N/A")
             /\ ami_results[q].AMIName =
                   (IF "Name" \in DOMAIN Offered[q] THEN Offered[q].Name ELSE "N/A")
             /\ ami_results[q].Instances =
                   (IF ami_results[q].AMIID \in DOMAIN instance_mapping
                    THEN JoinText(instance_mapping[ami_results[q].AMIID])
                    ELSE <<"None">>)

\* Two different images, and an instance whose image was not returned.
C4_Witness ==
    /\ Succeeded
    /\ Len(ami_results) = 2
    /\ ami_results[1].AMIID = "N/A"
    /\ ami_results[2].AMIID = "ami-1"
    /\ "ami-2" \in DOMAIN instance_mapping

\* C5: the Name of every EC2 row is "N/A" when the instance has no tag whose
\* Key is "Name" and otherwise the Value of the first such tag, and the
\* descriptors of the mapping carry that same name.
C5_NameIsFirstNameTagOrNA ==
    /\ pc \in {"for_instance", "build_mapping", "describe_images", "for_image"} \/ Succeeded =>
          \A k \in 1..Len(instances_data) :
             instances_data[k].Name = ExpectedName(Answered[k])
    /\ MappingBuilt =>
          \A X \in DOMAIN instance_mapping :
             LET at == SelectSeq([k \in 1..Len(Answered) |-> k],
                          LAMBDA k : HasImageId(Answered[k]) /\ Answered[k].ImageId = X)
             IN  /\ Len(at) = Len(instance_mapping[X])
                 /\ \A p \in 1..Len(at) :
                       instance_mapping[X][p][1] = Str(instances_data[at[p]].Name)

\* Rows of an instance with two Name tags behind another tag, of one with a
\* Name tag without Value, and of one without tags.
C5_Witness ==
    /\ pc = "describe_images"
    /\ Len(instances_data) = 2
    /\ instances_data[1].Name = "db"
    /\ instances_data[2].Name = None
    /\ "ami-2" \in DOMAIN instance_mapping

\* The number of entries of a sequence that satisfy Test.
Count(seq, Test(_)) == Len(SelectSeq(seq, Test))

IsErrorText(printed) == printed = ErrorText

IsTable(printed) == printed.text \in {Ec2Title, AmiTitle}

CallsOf(api) == SelectSeq(api_calls, LAMBDA call : call.api = api)

\* C6: a failing step hands control to the handler of audit_ec2_instances,
\* which writes one error entry to the log, prints the generic message once
\* and returns to the menu; back at the menu a failed audit has left exactly
\* one log entry and one message, a clean one none; and the loop ends only
\* from the menu, on the choice "2".
C6_FailureCaughtLoggedOnce ==
    /\ [](pc = "menu" =>
            /\ Len(log) = (IF exc = None THEN 0 ELSE 1)
            /\ Count(console, IsErrorText) = Len(log)
            /\ \A k \in 1..Len(log) : log[k] = ErrorEntry(exc))
    /\ [][/\ (exc' # exc /\ exc' # None) => pc' = "except"
          /\ pc = "except" =>
                /\ pc' = "menu"
                /\ log' = Append(log, ErrorEntry(exc))
                /\ console' = Append(console, ErrorText)
          /\ pc \notin {"except", "menu"} =>
                /\ log' = log
                /\ Count(console', IsErrorText) = Count(console, IsErrorText)
          /\ pc' = "exited" => (pc = "menu" /\ choice' = <<"2">>)]_vars

\* Back at the menu after a response of unexpected shape was caught.
C6_Witness ==
    /\ pc = "menu"
    /\ exc = "TypeError"
    /\ console = <<MenuText, ErrorText>>
    /\ log = <<ErrorEntry("TypeError")>>
    /\ Len(api_calls) = 2

AtMostOncePerTarget ==
    /\ Len(CallsOf("describe_instances")) <= 1
    /\ Len(CallsOf("describe_images")) <= 1
    /\ Len(CallsOf("list_metrics")) <= Len(raw_instances)
    /\ \A k \in 1..Len(CallsOf("list_metrics")) :
          CallsOf("list_metrics")[k].target =
             (IF "InstanceId" \in DOMAIN raw_instances[k]
              THEN raw_instances[k].InstanceId ELSE "N/A")

\* C7 as stated: every API call is attempted at most once per target, and an
\* audit that printed the error message printed no table at all.
C7_NoTableWhenAnyStepFails ==
    /\ AtMostOncePerTarget
    /\ Count(console, IsErrorText) > 0 => Count(console, IsTable) = 0

\* C7 as amended: every API call is attempted at most once per target; an
\* audit that fails never prints the AMI table; it prints no table when the
\* failure comes before the EC2 table (describe_instances, list_metrics, the
\* instance rows), and when describe_images fails the EC2 table is already
\* printed and stays.
C7_NoRetryNoAmiTableOnFailure ==
    /\ AtMostOncePerTarget
    /\ Count(console, IsErrorText) > 0 =>
          /\ \A k \in 1..Len(console) : console[k].text # AmiTitle
          /\ Count(console, IsTable) =
                (IF CallsOf("describe_images") # <<>> THEN 1 ELSE 0)

\* describe_images failed after the EC2 table of two instances was printed.
C7_Witness ==
    /\ pc = "menu"
    /\ Len(instances_data) = 2
    /\ console = <<MenuText, Table(Ec2Title, instances_data), ErrorText>>
    /\ Len(CallsOf("list_metrics")) = 2

\* C8 as stated: when no API call fails, the audit never enters its
\* exception branch, whatever optional keys the responses lack.
C8_MissingKeysNeverRaise ==
    pc = "except" => (api_calls # <<>> /\ ~api_calls[Len(api_calls)].ok)

\* The line is the character c between whitespace only.
IsChoice(typed, c) ==
    \E k \in 1..Len(typed) :
        /\ typed[k] = c
        /\ \A m \in 1..Len(typed) : m # k => typed[m] \in {" ", "\t", "\n"}

\* C9: the loop ends on, and only on, a line that is "2" between whitespace;
\* a line that is "1" between whitespace starts an audit, which attempts
\* describe_instances exactly once before the menu is shown again; any other
\* line prints the invalid-choice message, leaves the audit's data alone,
\* makes no API call and shows the menu again; nothing follows the exit.
C9_MenuLoopsUntilExit ==
    /\ [](pc = "menu" =>
            Len(CallsOf("describe_instances")) = (IF IsChoice(line, "1") THEN 1 ELSE 0))
    /\ [][/\ pc = "menu" =>
                /\ pc' = "exited" <=> IsChoice(line', "2")
                /\ pc' = "describe_instances" <=> IsChoice(line', "1")
                /\ ~(IsChoice(line', "1") \/ IsChoice(line', "2")) =>
                      /\ pc' = "menu"
                      /\ console' = <<MenuText, InvalidText>>
                      /\ api_calls' = <<>>
                      /\ UNCHANGED locals
          /\ pc # "menu" => (line' = line /\ pc' # "exited")
          /\ pc # "exited"]_vars

\* The menu is shown again after an invalid line typed after an audit.
C9_Witness ==
    /\ pc = "menu"
    /\ line = <<"2", " ", "2">>
    /\ console = <<MenuText, InvalidText>>
    /\ ami_results # <<>>

\* C10: whatever earlier audits left behind, the instances, the EC2 rows, the
\* association mapping and the AMI rows of an audit are those computed from
\* the responses this audit received, and from nothing else.
C10_ReportFromThisAuditsResponses ==
    /\ pc \in {"build_mapping", "describe_images", "for_image"} \/ Succeeded =>
          /\ raw_instances = Answered
          /\ instances_data =
                [k \in 1..Len(Answered) |->
                    InstanceData(Answered[k]) @@
                    [MonitoringAlarms |->
                        MonitoringAlarms(Alarms(AccountMetrics(
                            Get(Answered[k], "InstanceId", "N/A"))))]]
    /\ MappingBuilt => instance_mapping = BuildMapping(<<>>, Answered, 1)
    /\ Succeeded =>
          /\ ami_results = [q \in 1..Len(Offered) |->
                               AmiRow(Offered[q], BuildMapping(<<>>, Answered, 1))]
          /\ console = <<MenuText, Table(Ec2Title, instances_data),
                         Table(AmiTitle, ami_results)>>

\* A later audit has rebuilt the mapping while the AMI rows of an earlier
\* audit are still around.
C10_Witness ==
    /\ pc = "describe_images"
    /\ Len(ami_results) = 2
    /\ "ami-1" \in DOMAIN instance_mapping
    /\ Len(instance_mapping["ami-1"]) = 2

====
